---- MODULE Spec2Model ----
(***************************************************************************)
(* ScribeBotServer: the recording service (HTTP request path), the         *)
(* transcription processor (queue worker) and the cache service.           *)
(*                                                                         *)
(* Text is modelled as a sequence of words; a word is a record             *)
(* [core, term]: the word's characters without a final sentence mark, and  *)
(* the final sentence mark ("." "!" "?") or "" when it has none.  Words    *)
(* of one line are separated by single spaces.  A multi-line text is a     *)
(* sequence of lines.                                                      *)
(***************************************************************************)
EXTENDS Integers, Sequences, FiniteSets, TLC

\* ---------------------------------------------------------------- bounds
MaxWords == 3      \* words of a transcript given to the summarizer
MaxChunks == 2     \* uploadChunk calls of one recording
MaxStops == 1      \* stopRecording calls of one recording
MaxRepeatedStops == 2  \* stopRecording calls when the client repeats them
MaxPoolJobs == 2   \* jobs enqueued when the worker pool is examined
MaxJobs == 1       \* jobs an external producer puts on the queue
MaxClock == 1      \* clock ticks observed in one behaviour
MaxFaults == 3     \* failures of external calls in one behaviour
MaxCount == 2      \* value a Redis counter is incremented to
MaxCallers == 2    \* concurrent getOrCreateScribeBotFolder calls
MaxSpokenWords == 5 \* words of a recognition response
MaxWaitTicks == 2  \* maxWaitMs of acquireLock, in sleeps of 100 ms
MaxSleepTicks == 2 \* the latest a 100 ms timer fires, in units of 100 ms

VARIABLES
  entry,       \* "http": the recording is driven through the controller;
               \* "queue": it is processed by jobs of the transcription queue;
               \* "fn": a pure function of the processor is applied
  clock,       \* the wall clock (Date.now())
  faults,      \* external calls that have failed so far
  tempChunks,  \* files of the recording's temp-chunks folder, in creation order
  nUploads,    \* uploadChunk calls handled so far
  nStops,      \* stopRecording calls handled so far
  audio,       \* complete-recording files of the recording's audio folder
  results,     \* files of the recording's results folder, by result set
  metadata,    \* content of session-info.json
  gcs,         \* objects of the staging bucket
  httpLog,     \* steps the last stopRecording call executed, in order
  response,    \* what the last stopRecording call returned to the caller
  got,         \* what the last getResults call returned to the caller
  jobs,        \* the transcription queue: job id -> job
  localFiles,  \* files in os.tmpdir()
  cache,       \* the cache entry recording:<id>
  fnIn,        \* input of the pure function applied
  fnOut,       \* its output
  redis,       \* the Redis database of CacheService: key -> stored value
  svcOut,      \* what the last call of a service method gave its caller
  objects,     \* Drive objects deleteFolder may be called on: id -> object
  rootFolders, \* number of 'scribe-bot' folders in the user's Drive
  calls,       \* concurrent getOrCreateScribeBotFolder calls: caller -> call
  acquirers,   \* concurrent acquireLock calls: caller -> call
  stagers      \* concurrent transcriptions staging their audio: caller -> call

vars == <<entry, clock, faults, tempChunks, nUploads, nStops, audio, results, metadata,
          gcs, httpLog, response, got, jobs, localFiles, cache, fnIn, fnOut,
          redis, svcOut, objects, rootFolders, calls, acquirers, stagers>>

httpVars == <<tempChunks, nUploads, nStops, httpLog, response, got>>
queueVars == <<jobs, localFiles, cache>>
driveVars == <<audio, results, metadata>>
fnVars == <<fnIn, fnOut>>
svcVars == <<redis, svcOut, objects, rootFolders, calls, acquirers, stagers>>

\* n more external calls fail.
Fail(n) == faults + n <= MaxFaults /\ faults' = faults + n
B(b) == IF b THEN 0 ELSE 1

\* ------------------------------------------------------------------ text
W(c) == [core |-> c, term |-> ""]
Wt(c, t) == [core |-> c, term |-> t]

\* String.length of one word and of a line of words separated by spaces.
WordLen(w) == Len(w.core) + Len(w.term)

RECURSIVE LineLen(_)
LineLen(ws) ==
  IF ws = <<>> THEN 0
  ELSE WordLen(Head(ws)) + (IF Len(ws) > 1 THEN 1 ELSE 0) + LineLen(Tail(ws))

\* String.prototype.toLowerCase on the cores the model uses.
toLowerCase(c) ==
  CASE c = "Doctor:" -> "doctor:"
    [] c = "Patient:" -> "patient:"
    [] c = "Plan" -> "plan"
    [] c = "Follow" -> "follow"
    [] OTHER -> c

\* String.prototype.includes between a lower-cased word and one word of a
\* keyword: equal strings, or one of the proper substrings of the vocabulary.
WordIncludes(lc, kw) ==
  \/ lc = kw
  \/ lc = "explanation" /\ kw = "plan"

\* sentence.toLowerCase().includes(keyword.toLowerCase()): the words of the
\* keyword occur in consecutive words of the sentence.
SentenceIncludes(sentence, keyword) ==
  \E i \in 1..Len(sentence) :
    /\ i + Len(keyword) - 1 <= Len(sentence)
    /\ \A j \in 1..Len(keyword) :
         WordIncludes(toLowerCase(sentence[i + j - 1].core), keyword[j])

\* transcript.split(/[.!?]\s/): a sentence mark followed by white space ends
\* a sentence and is removed with the white space; the mark of the last word
\* of the text is followed by nothing and stays.
RECURSIVE SplitSentences(_, _)
SplitSentences(ws, cur) ==
  IF ws = <<>> THEN <<cur>>
  ELSE IF Head(ws).term # "" /\ Len(ws) > 1
       THEN <<Append(cur, W(Head(ws).core))>> \o SplitSentences(Tail(ws), <<>>)
       ELSE SplitSentences(Tail(ws), Append(cur, Head(ws)))

\* sentences.join('. '): every sentence but the last gets a "." appended to
\* its last word (an empty sentence yields a word of its own, ".").
RECURSIVE JoinSentences(_)
JoinSentences(ss) ==
  IF ss = <<>> THEN <<>>
  ELSE IF Len(ss) = 1 THEN Head(ss)
  ELSE LET s == Head(ss)
           n == Len(s)
       IN (IF n = 0 THEN <<Wt("", ".")>>
           ELSE SubSeq(s, 1, n - 1) \o <<Wt(s[n].core \o s[n].term, ".")>>)
          \o JoinSentences(Tail(ss))

MinSentenceLength == 10

extractSection(transcript, keywords) ==
  LET LongEnough(s) == LineLen(s) > MinSentenceLength
      sentences == SelectSeq(SplitSentences(transcript, <<>>), LongEnough)
      Matches(s) == \E k \in keywords : SentenceIncludes(s, k)
      matchingSentences == SelectSeq(sentences, Matches)
  IN JoinSentences(matchingSentences)

\* The sections of the rule-based summary, in the order of the object literal.
FallbackSections == <<
  [title |-> <<W("Chief"), W("Complaint")>>,
   keywords |-> {<<"chief", "complaint">>, <<"reason", "for", "visit">>,
                 <<"what", "brings", "you">>}],
  [title |-> <<W("Assessment")>>,
   keywords |-> {<<"assessment">>, <<"diagnosis">>, <<"condition">>}],
  [title |-> <<W("Plan")>>,
   keywords |-> {<<"plan">>, <<"recommendation">>, <<"follow", "up">>,
                 <<"prescription">>}] >>

SectionHeader(title) == <<W("##")>> \o title
SummaryTitle == <<W("#"), W("Medical"), W("Consultation"), W("Summary")>>
NotSpecified == <<W("Not"), W("specified")>>
FailureMessage ==
  << <<W("Summary"), W("generation"), Wt("failed", "."), W("Please"),
       W("review"), W("the"), W("transcript"), Wt("directly", ".")>> >>

RECURSIVE FallbackSectionLines(_, _)
FallbackSectionLines(transcript, sections) ==
  IF sections = <<>> THEN <<>>
  ELSE LET content == extractSection(transcript, Head(sections).keywords)
       IN << SectionHeader(Head(sections).title),
             IF content # <<>> THEN content ELSE NotSpecified,
             <<>> >>
          \o FallbackSectionLines(transcript, Tail(sections))

FallbackSummaryWithoutEmptySections(transcript) ==
  LET Keep(sec) == extractSection(transcript, sec.keywords) # <<>>
  IN <<SummaryTitle, <<>>>>
     \o FallbackSectionLines(transcript, SelectSeq(FallbackSections, Keep))

generateFallbackSummary(transcript) ==
  <<SummaryTitle, <<>>>> \o FallbackSectionLines(transcript, FallbackSections)

\* What the generative model answers when it answers: one line of free text.
AiSummary(transcript) == << <<W("AI"), W("summary")>> \o transcript >>

\* generateMedicalSummary: the model's text, or on any failure of the model
\* the rule-based summary.  generateFallbackSummary does not throw on a
\* string, so the inner catch and its message are never reached.
generateMedicalSummary(transcript, aiFails) ==
  IF aiFails THEN generateFallbackSummary(transcript) ELSE AiSummary(transcript)

\* ------------------------------------------------- sample data of the runs
\* Transcripts the speech service answers with in the dynamic specifications.
SampleTranscripts ==
  { <<W("the"), W("diagnosis"), W("is"), Wt("flu", ".")>>,
    <<W("hello"), W("there")>> }

\* JSON.stringify of a multi-line text: one line in double quotes, the line
\* breaks escaped.
RECURSIVE EscapeLines(_)
EscapeLines(lines) ==
  IF lines = <<>> THEN <<>>
  ELSE Head(lines) \o (IF Len(lines) > 1 THEN <<W("\\n")>> ELSE <<>>)
       \o EscapeLines(Tail(lines))

JsonStringify(lines) == << <<W("\"")>> \o EscapeLines(lines) \o <<W("\"")>> >>

\* ------------------------------------------------------------ chunk names
\* Strings that are compared are sequences of character codes.
RECURSIVE toString(_)
toString(n) ==
  IF n < 10 THEN <<48 + n>> ELSE toString(n \div 10) \o <<48 + (n % 10)>>

RECURSIVE padStart(_, _, _)
padStart(s, targetLength, padChar) ==
  IF Len(s) >= targetLength THEN s
  ELSE padStart(<<padChar>> \o s, targetLength, padChar)

ChunkPad == 3

ChunkNameUnpadded(chunkNumber) ==
  <<99, 104, 117, 110, 107, 45>> \o toString(chunkNumber) \o <<46, 119, 97, 118>>

\* `chunk-${chunkNumber.toString().padStart(3, '0')}.wav`
ChunkName(chunkNumber) ==
  <<99, 104, 117, 110, 107, 45>>
  \o padStart(toString(chunkNumber), ChunkPad, 48)
  \o <<46, 119, 97, 118>>

\* Order of two names under orderBy: 'name' (by character code).
RECURSIVE NameLeq(_, _)
NameLeq(a, b) ==
  IF a = <<>> THEN TRUE
  ELSE IF b = <<>> THEN FALSE
  ELSE IF Head(a) < Head(b) THEN TRUE
  ELSE IF Head(a) > Head(b) THEN FALSE
  ELSE NameLeq(Tail(a), Tail(b))

\* The answers drive.files.list may give for orderBy: 'name': the files in
\* non-decreasing name order; files of equal name come in any order.
ListByName(files) ==
  LET n == Len(files)
  IN { p \in [1..n -> 1..n] :
         /\ \A i, j \in 1..n : i # j => p[i] # p[j]
         /\ \A i \in 1..n : i < n => NameLeq(files[p[i]].name, files[p[i + 1]].name) }

\* Buffer.concat of the files' contents in the order of the listing.
RECURSIVE ConcatListing(_, _, _)
ConcatListing(files, p, i) ==
  IF i > Len(files) THEN <<>>
  ELSE files[p[i]].data \o ConcatListing(files, p, i + 1)

\* Sequence numbers a client uploads.
ChunkNumbers == {2, 10, 999, 1000}

\* ------------------------------------------------------------ shared state
ResultFileOrderHtmlOnly ==
  <<"transcript.html", "summary.html", "transcript.htm", "summary.htm">>
ResultFileOrder == <<"transcript.txt", "summary.txt", "transcript.html", "summary.html">>
ResultFiles == {ResultFileOrder[i] : i \in 1..4}

NoMetadata == [status |-> "", completedAt |-> -1, transcriptLength |-> -1]

\* The status getAllRecordings shows for a recording's metadata.
ReadStatus(m) == IF m.status = "" THEN "incomplete" ELSE m.status

\* transcript.length as counted for the session metadata.
TextLengthInWords(transcript) == Len(transcript)
TextLength(transcript) == LineLen(transcript)

\* drive.files.create in the results folder: always a new file, whatever
\* files of whatever names the folder holds.
OverwriteResultSet(rs, files) == <<files>>
WriteResultSet(rs, files) == Append(rs, files)
NoResponse == [kind |-> "none"]
NoCache == [present |-> FALSE]

\* The local files of optimizeAudioForTranscription in os.tmpdir():
\* input-<now>.wav and optimized-<now>.flac.
TempPath(name, now) == [name |-> name, ts |-> now]

\* The names of the staging objects: recording-<now>.webm in
\* RecordingService.transcribeAudio, transcription-<recordingId>-<now>.flac
\* in the processor's uploadToGCS.
HttpStagingKey(recordingId, now) == [prefix |-> "recording", id |-> "", ts |-> now]
QueueStagingKey(recordingId, now) ==
  [prefix |-> "transcription", id |-> recordingId, ts |-> now]

Tick ==
  /\ entry \in {"http", "queue", "stage"}
  /\ clock < MaxClock
  /\ clock' = clock + 1
  /\ UNCHANGED <<entry, gcs, faults>>
  /\ UNCHANGED <<httpVars, queueVars, driveVars, fnVars, svcVars>>

\* ------------------------------------------- RecordingService (HTTP path)
\* processAudioChunk: store the payload as a new file of temp-chunks.  Each
\* call carries a payload of its own, <<k>> for the k-th call.
UploadChunk(chunkNumber, ok) ==
  /\ entry = "http"
  /\ nUploads < MaxChunks
  /\ nUploads' = nUploads + 1
  /\ Fail(B(ok))
  /\ tempChunks' =
       IF ok THEN Append(tempChunks, [name |-> ChunkName(chunkNumber),
                                      no |-> chunkNumber,
                                      data |-> <<nUploads + 1>>])
       ELSE tempChunks
  /\ UNCHANGED <<entry, clock, gcs, nStops, httpLog, response, got>>
  /\ UNCHANGED <<queueVars, driveVars, fnVars, svcVars>>

\* The steps of stopRecording in program order.  A failure of "unstage",
\* "metadata" or "deleteFolder" is caught where it happens; a failure of any
\* other step reaches the catch of stopRecording.
StopOrder ==
  <<"tempFolder", "list", "checkChunks", "download", "saveAudio", "stage",
    "recognize", "unstage", "summarize", "persist", "metadata", "deleteFolder",
    "return">>
StopAbsorbed == {"unstage", "metadata", "deleteFolder"}
StopExternalFatal ==
  {"tempFolder", "list", "download", "saveAudio", "stage", "recognize",
   "summarize", "persist"}

StepIndex(step) == CHOOSE i \in 1..Len(StopOrder) : StopOrder[i] = step

\* What the external services do during one stopRecording call.
StopOutcomes ==
  { o \in [fail : StopExternalFatal \cup {"none"},
           written : 0..4,
           unstageFails : BOOLEAN, metaFails : BOOLEAN, deleteFails : BOOLEAN,
           transcript : SampleTranscripts] :
      o.written = 4 <=> o.fail # "persist" }

StopFaults(o) ==
  B(o.fail = "none") + B(~o.unstageFails) + B(~o.metaFails) + B(~o.deleteFails)

\* The transcription queue after stopRecording: the service holds no queue
\* and adds no job.
StopJobsEnqueued(q) ==
  IF \E j \in DOMAIN q : q[j].state = "absent"
  THEN LET j == CHOOSE k \in DOMAIN q : q[k].state = "absent"
       IN [q EXCEPT ![j].state = "waiting"]
  ELSE q
StopJobs(q) == q

\* summarizeTranscript rethrows every failure of the generative model.
SummarizeFallsBackOnFailure(o) == o.fail = "summarize"
SummarizeFallsBack(o) == FALSE

\* if (!chunks.data.files?.length) throw 'No audio chunks found'.
ChunksMissingIgnored(chunks) == FALSE
ChunksMissing(chunks) == chunks = <<>>

\* The step at which the call throws, "none" when it returns.
StopFailure(o, chunks) ==
  LET ext == IF SummarizeFallsBack(o) THEN "none" ELSE o.fail
  IN IF ChunksMissing(chunks) /\ (ext = "none" \/ StepIndex(ext) > StepIndex("checkChunks"))
     THEN "checkChunks"
     ELSE ext

StopDone(o, chunks, step) ==
  LET f == StopFailure(o, chunks)
  IN f = "none" \/ StepIndex(f) > StepIndex(step)

StopAttempted(o, chunks, step) ==
  LET f == StopFailure(o, chunks)
  IN CASE step = "unstage" -> StopDone(o, chunks, "recognize")
       [] step \in {"metadata", "deleteFolder"} -> StopDone(o, chunks, "persist")
       [] OTHER -> f = "none" \/ StepIndex(f) >= StepIndex(step)

StopStepOk(o, chunks, step) ==
  CASE step = "unstage" -> ~o.unstageFails
    [] step = "metadata" -> ~o.metaFails
    [] step = "deleteFolder" -> ~o.deleteFails
    [] step = "checkChunks" -> chunks # <<>>
    [] OTHER -> o.fail # step

StopLog(o, chunks) ==
  LET Ran(step) == StopAttempted(o, chunks, step)
      all == [i \in 1..Len(StopOrder) |->
                [step |-> StopOrder[i], ok |-> StopStepOk(o, chunks, StopOrder[i])]]
      RanRec(r) == Ran(r.step)
  IN SelectSeq(all, RanRec)

\* The summary stopRecording works with: the model's text, or with a
\* fallback (which this service does not have) the rule-based summary.
StopSummary(o) ==
  IF o.fail = "summarize" THEN generateFallbackSummary(o.transcript)
  ELSE AiSummary(o.transcript)

\* stopRecording of the controller: awaits RecordingService.stopRecording,
\* which combines the chunks, saves the audio, transcribes, summarizes,
\* persists and cleans up before it returns {transcript, summary}.
\* deleteFolder(drive, tempChunksFolder), the last step: one files.delete of
\* the folder, which takes all its chunks or, failing, none.
TempChunksDeletedAlways(chunks, deleted) == <<>>
TempChunksAfter(chunks, deleted) == IF deleted THEN <<>> ELSE chunks

StopRecording(o, p) ==
  LET chunks == tempChunks
      Did(step) == StopDone(o, chunks, step)
      combinedAudio == ConcatListing(chunks, p, 1)
      key == HttpStagingKey("rec", clock)
      summary == StopSummary(o)
      written == {ResultFileOrder[i] : i \in 1..o.written}
  IN /\ entry = "http"
     /\ o \in StopOutcomes
     /\ p \in ListByName(chunks)
     /\ Fail(StopFaults(o))
     /\ \A step \in StopAbsorbed :
          ~StopAttempted(o, chunks, step) => StopStepOk(o, chunks, step)
     /\ StopFailure(o, chunks) = "checkChunks" => o.fail = "none"
     /\ nStops' = nStops + 1
     /\ audio' = IF Did("saveAudio")
                 THEN Append(audio, [ts |-> clock, data |-> combinedAudio])
                 ELSE audio
     /\ gcs' = IF ~Did("stage") THEN gcs
               ELSE IF Did("recognize") /\ ~o.unstageFails THEN gcs \ {key}
               ELSE gcs \cup {key}
     /\ results' = IF Did("summarize") /\ written # {}
                   THEN WriteResultSet(results, [ts |-> clock, by |-> "http",
                                         files |-> written,
                                         transcript |-> o.transcript,
                                         summary |-> JsonStringify(summary)])
                   ELSE results
     /\ metadata' = IF Did("persist") /\ ~o.metaFails
                    THEN [status |-> "completed", completedAt |-> clock,
                          transcriptLength |-> TextLength(o.transcript)]
                    ELSE metadata
     /\ tempChunks' = TempChunksAfter(chunks, Did("persist") /\ ~o.deleteFails)
     /\ httpLog' = StopLog(o, chunks)
     /\ response' = IF StopFailure(o, chunks) = "none"
                    THEN [kind |-> "ok", transcript |-> o.transcript,
                          summary |-> summary]
                    ELSE [kind |-> "error", message |-> "Failed to process recording"]
     /\ jobs' = StopJobs(jobs)
     /\ UNCHANGED <<entry, clock, nUploads, got, localFiles, cache>>
     /\ UNCHANGED <<fnVars, svcVars>>

\* getResults of the controller, RecordingService.getRecordingResults: the
\* first transcript-*.txt and the first summary-*.txt of the listing of the
\* results folder (all names have the same length); the listing has no
\* orderBy.  Every failure on the way ends in "Failed to retrieve results".
\* The service holds no CacheService: every call reads the Drive folder.
GetResults(ok, t, s) ==
  LET withT == {i \in 1..Len(results) : "transcript.txt" \in results[i].files}
      withS == {i \in 1..Len(results) : "summary.txt" \in results[i].files}
      transcript == IF ok /\ withT # {} THEN results[t].transcript ELSE <<>>
      summary == IF ok /\ withS # {} THEN results[s].summary ELSE <<>>
  IN /\ entry \in {"http", "queue"}
     /\ withT # {} => t \in withT
     /\ withS # {} => s \in withS
     /\ withT = {} => t = 0
     /\ withS = {} => s = 0
     /\ Fail(B(ok))
     /\ got' = IF transcript = <<>> /\ summary = <<>>
               THEN [kind |-> "error", message |-> "Failed to retrieve results",
                     reads |-> {"drive"}]
               ELSE [kind |-> "ok", transcript |-> transcript, summary |-> summary,
                     reads |-> {"drive"}]
     /\ UNCHANGED <<entry, clock, gcs, tempChunks, nUploads, nStops, httpLog, response>>
     /\ UNCHANGED <<queueVars, driveVars, fnVars, svcVars>>

\* deleteRecording of the controller, RecordingService.deleteRecording: one
\* files.delete of the recording's folder, which takes the temp chunks, the
\* audio, the results and the metadata with it.  The service holds no
\* CacheService and touches no cache entry.  Nothing that happens to a
\* deleted recording is modelled.
DeleteRecording(ok) ==
  /\ entry \in {"http", "queue"}
  /\ Fail(B(ok))
  /\ entry' = IF ok THEN "deleted" ELSE entry
  /\ tempChunks' = IF ok THEN <<>> ELSE tempChunks
  /\ audio' = IF ok THEN <<>> ELSE audio
  /\ results' = IF ok THEN <<>> ELSE results
  /\ metadata' = IF ok THEN NoMetadata ELSE metadata
  /\ UNCHANGED <<clock, gcs, nUploads, nStops, httpLog, response, got>>
  /\ UNCHANGED <<queueVars, fnVars, svcVars>>

\* ------------------------------------------------------------ CacheService
\* Redis holds strings.  set stores JSON.stringify(value): the JSON of a
\* text ("text", n names the text) or of a number ("int", n is the number);
\* setNX stores its string argument as it is ("raw", n names the string,
\* a lock id).  ex: the key has an expiry.
RedisKeys == {"a", "lock:L"}
Absent == [kind |-> "absent", n |-> 0, ex |-> FALSE]
Stored(kind, n, ex) == [kind |-> kind, n |-> n, ex |-> ex]
EmptyRedis == [k \in RedisKeys |-> Absent]

\* What a method gives its caller.
Returned(kind, n, b) == [kind |-> kind, n |-> n, b |-> b, threw |-> FALSE]
Thrown == [kind |-> "error", n |-> 0, b |-> FALSE, threw |-> TRUE]
Void == Returned("void", 0, FALSE)
Null == Returned("null", 0, FALSE)

\* The catch block of each method.
OnBackendErrorRethrow(op) == Thrown
OnBackendError(op) ==
  CASE op = "get" -> Null
    [] op = "increment" -> Returned("int", 0, FALSE)
    [] op \in {"setNX", "releaseLock"} -> Returned("bool", 0, FALSE)
    [] OTHER -> Void

Outcome(store, result) == [store |-> store, result |-> result]

set(store, key, value, ttlSeconds, ok) ==
  IF ok
  THEN Outcome([store EXCEPT ![key] = Stored(value.kind, value.n, ttlSeconds # 0)], Void)
  ELSE Outcome(store, OnBackendError("set"))

\* JSON.parse of a raw lock id throws inside the try.
get(store, key, ok) ==
  IF ~ok THEN Outcome(store, OnBackendError("get"))
  ELSE IF store[key].kind = "absent" THEN Outcome(store, Null)
  ELSE IF store[key].kind = "raw" THEN Outcome(store, OnBackendError("get"))
  ELSE Outcome(store, Returned(store[key].kind, store[key].n, FALSE))

delete(store, key, ok) ==
  IF ok THEN Outcome([store EXCEPT ![key] = Absent], Void)
  ELSE Outcome(store, OnBackendError("delete"))

\* client.keys(pattern) for the patterns "*" and "lock:*".
KeysMatching(store, pattern) ==
  {k \in RedisKeys : store[k].kind # "absent" /\ (pattern = "*" \/ k = "lock:L")}

deletePattern(store, pattern, keysOk, delOk) ==
  LET keys == KeysMatching(store, pattern)
  IN IF ~keysOk THEN Outcome(store, OnBackendError("deletePattern"))
  ELSE IF keys = {} THEN Outcome(store, Void)
  ELSE IF ~delOk THEN Outcome(store, OnBackendError("deletePattern"))
  ELSE Outcome([k \in RedisKeys |-> IF k \in keys THEN Absent ELSE store[k]], Void)

\* INCRBY: Redis answers with an error for a value that is no integer.
increment(store, key, by, ok) ==
  IF ~ok \/ store[key].kind \in {"text", "raw"}
  THEN Outcome(store, OnBackendError("increment"))
  ELSE LET n == store[key].n + by
       IN Outcome([store EXCEPT ![key] = Stored("int", n, store[key].ex)],
                  Returned("int", n, FALSE))

\* SET key value EX ttl NX: Redis answers with an error for ttl 0.
setNXOverwrite(store, key, value, ttlSeconds, ok) ==
  IF ~ok \/ ttlSeconds <= 0 THEN Outcome(store, OnBackendError("setNX"))
  ELSE Outcome([store EXCEPT ![key] = Stored("raw", value, TRUE)],
               Returned("bool", 0, TRUE))
setNX(store, key, value, ttlSeconds, ok) ==
  IF ~ok \/ ttlSeconds <= 0 THEN Outcome(store, OnBackendError("setNX"))
  ELSE IF store[key].kind = "absent"
       THEN Outcome([store EXCEPT ![key] = Stored("raw", value, TRUE)],
                    Returned("bool", 0, TRUE))
       ELSE Outcome(store, Returned("bool", 0, FALSE))

\* The script deletes lock:<name> only when it holds lockId.
releaseLockUnconditional(store, lockId, ok) ==
  IF ~ok THEN Outcome(store, OnBackendError("releaseLock"))
  ELSE IF store["lock:L"].kind # "absent"
       THEN Outcome([store EXCEPT !["lock:L"] = Absent], Returned("bool", 0, TRUE))
       ELSE Outcome(store, Returned("bool", 0, FALSE))
releaseLock(store, lockId, ok) ==
  LET lockKey == "lock:L"
  IN IF ~ok THEN Outcome(store, OnBackendError("releaseLock"))
     ELSE IF store[lockKey].kind = "raw" /\ store[lockKey].n = lockId
          THEN Outcome([store EXCEPT ![lockKey] = Absent], Returned("bool", 0, TRUE))
          ELSE Outcome(store, Returned("bool", 0, FALSE))

\* getOrSet: get, and on null the factory, set and the factory's value.  A
\* throwing factory is not caught.
getOrSet(store, key, value, ttlSeconds, getOk, factoryOk, setOk) ==
  LET cachedValue == get(store, key, getOk).result
  IN IF cachedValue # Null THEN Outcome(store, cachedValue)
     ELSE IF ~factoryOk THEN Outcome(store, Thrown)
     ELSE Outcome(set(store, key, value, ttlSeconds, setOk).store,
                  Returned(value.kind, value.n, FALSE))

\* Arguments the callers of the model pass.
CacheValues == {[kind |-> "text", n |-> 1], [kind |-> "int", n |-> 1]}
CacheTtls == {0, 60}
LockIds == {1, 2}

\* One call of a CacheService method: `out` is what the method does to the
\* store and gives back, `failed` the number of backend calls that failed.
CacheCall(op, key, out, failed) ==
  /\ entry = "cache"
  /\ Fail(failed)
  /\ redis' = out.store
  /\ svcOut' = [op |-> op, key |-> key, ok |-> failed = 0, result |-> out.result]
  /\ UNCHANGED <<entry, clock, gcs, objects, rootFolders, calls, acquirers, stagers>>
  /\ UNCHANGED <<httpVars, queueVars, driveVars, fnVars>>

CacheSet(key, value, ttlSeconds, ok) ==
  CacheCall("set", key, set(redis, key, value, ttlSeconds, ok), B(ok))
CacheGet(key, ok) ==
  CacheCall("get", key, get(redis, key, ok), B(ok))
CacheDelete(key, ok) ==
  CacheCall("delete", key, delete(redis, key, ok), B(ok))
CacheDeletePattern(pattern, keysOk, delOk) ==
  /\ ~keysOk \/ KeysMatching(redis, pattern) = {} => delOk
  /\ CacheCall("deletePattern", pattern,
               deletePattern(redis, pattern, keysOk, delOk), B(keysOk) + B(delOk))
CacheIncrement(key, ok) ==
  /\ redis[key].kind \in {"absent", "int"} => redis[key].n < MaxCount
  /\ CacheCall("increment", key, increment(redis, key, 1, ok), B(ok))
CacheSetNX(key, value, ttlSeconds, ok) ==
  CacheCall("setNX", key, setNX(redis, key, value, ttlSeconds, ok), B(ok))
CacheReleaseLock(lockId, ok) ==
  CacheCall("releaseLock", "lock:L", releaseLock(redis, lockId, ok), B(ok))
CacheGetOrSet(key, value, ttlSeconds, getOk, factoryOk, setOk) ==
  /\ (~getOk \/ redis[key].kind \in {"absent", "raw"}) \/ (factoryOk /\ setOk)
  /\ factoryOk \/ setOk
  /\ CacheCall("getOrSet", key,
               getOrSet(redis, key, value, ttlSeconds, getOk, factoryOk, setOk),
               B(getOk) + B(setOk))

\* Redis drops a key whose expiry has passed.
Expire(key) ==
  /\ entry \in {"cache", "lock"}
  /\ redis[key].kind # "absent" /\ redis[key].ex
  /\ redis' = [redis EXCEPT ![key] = Absent]
  /\ UNCHANGED <<entry, clock, faults, gcs, svcOut, objects, rootFolders, calls,
                 acquirers, stagers>>
  /\ UNCHANGED <<httpVars, queueVars, driveVars, fnVars>>

CacheNext ==
  \/ \E k \in RedisKeys, v \in CacheValues, ttl \in CacheTtls, ok \in BOOLEAN :
        CacheSet(k, v, ttl, ok)
  \/ \E k \in RedisKeys, ok \in BOOLEAN : CacheGet(k, ok)
  \/ \E k \in RedisKeys, ok \in BOOLEAN : CacheDelete(k, ok)
  \/ \E pattern \in {"*", "lock:*"}, keysOk, delOk \in BOOLEAN :
        CacheDeletePattern(pattern, keysOk, delOk)
  \/ \E k \in RedisKeys, ok \in BOOLEAN : CacheIncrement(k, ok)
  \/ \E k \in RedisKeys, id \in LockIds, ttl \in CacheTtls, ok \in BOOLEAN :
        CacheSetNX(k, id, ttl, ok)
  \/ \E id \in LockIds, ok \in BOOLEAN : CacheReleaseLock(id, ok)
  \/ \E k \in RedisKeys, v \in CacheValues, ttl \in CacheTtls,
        getOk, factoryOk, setOk \in BOOLEAN :
        CacheGetOrSet(k, v, ttl, getOk, factoryOk, setOk)
  \/ \E k \in RedisKeys : Expire(k)

\* ------------------------------------- TranscriptionProcessor (queue path)
Jobs == 1..MaxPoolJobs
Attempts == 3
Concurrency == 1
CacheTtl == 3600

\* The awaited steps of processTranscription in program order, and the
\* state of the job attempt after each of them.
PipelineOrderWithoutOptimize ==
  <<"fetch", "upload", "transcribe", "summarize", "persist", "cleanup", "cache">>
PipelineOrderCacheFirst ==
  <<"fetch", "optimize", "upload", "transcribe", "summarize", "persist",
    "cache", "cleanup">>
PipelineOrderCacheEarly ==
  <<"fetch", "optimize", "upload", "cache", "transcribe", "summarize", "persist",
    "cleanup">>
PipelineOrder ==
  <<"fetch", "optimize", "upload", "transcribe", "summarize", "persist",
    "cleanup", "cache">>

StageAfter(step) ==
  CASE step = "fetch" -> "Fetched"
    [] step = "optimize" -> "Optimized"
    [] step = "upload" -> "Uploaded"
    [] step = "transcribe" -> "Transcribed"
    [] step = "summarize" -> "Summarized"
    [] step = "persist" -> "Persisted"
    [] step = "cleanup" -> "CleanedUp"
    [] step = "cache" -> "Cached"

\* job.progress(n) after the step; the last three steps report nothing.
ProgressAfterUploadLow(step, progress) ==
  CASE step = "fetch" -> 20
    [] step = "optimize" -> 30
    [] step = "upload" -> 20
    [] step = "transcribe" -> 70
    [] step = "summarize" -> 90
    [] OTHER -> progress
ProgressAfter(step, progress) ==
  CASE step = "fetch" -> 20
    [] step = "optimize" -> 30
    [] step = "upload" -> 40
    [] step = "transcribe" -> 70
    [] step = "summarize" -> 90
    [] OTHER -> progress

NoJob ==
  [state |-> "absent", attemptsStarted |-> 0, attemptsMade |-> 0,
   stage |-> "None", pc |-> 0,
   progress |-> 0, log |-> <<>>, failedAt |-> "none", tmpOut |-> "none",
   gcsUri |-> "none", transcript |-> <<>>, summary |-> <<>>,
   aiFailed |-> FALSE, returned |-> NoResponse]

Logged(log, step, ok) == Append(log, [step |-> step, ok |-> ok])

\* The attempt of job j is about to run `step`.
AtStep(j, step) ==
  /\ entry = "queue"
  /\ jobs[j].state = "active"
  /\ jobs[j].pc < Len(PipelineOrder)
  /\ PipelineOrder[jobs[j].pc + 1] = step

\* An external producer adds a job {recordingId, accessToken, sessionInfo}.
Enqueue(j) ==
  /\ entry = "queue"
  /\ jobs[j].state = "absent"
  /\ jobs' = [jobs EXCEPT ![j].state = "waiting"]
  /\ UNCHANGED <<entry, clock, faults, gcs, localFiles, cache>>
  /\ UNCHANGED <<httpVars, driveVars, fnVars, svcVars>>

\* The worker of @Process('process') takes another job only while it runs
\* fewer than `concurrency` handlers.
WorkerAlwaysFree(active) == TRUE
WorkerFree(active) == Cardinality(active) < Concurrency

\* The queue hands a waiting job, or a job whose backoff delay has passed,
\* to the processor; processTranscription starts and reports progress 5.
Dispatch(j) ==
  /\ entry = "queue"
  /\ jobs[j].state \in {"waiting", "delayed"}
  /\ WorkerFree({k \in Jobs : jobs[k].state = "active"})
  /\ jobs' = [jobs EXCEPT ![j] =
       [@ EXCEPT !.state = "active", !.attemptsStarted = @ + 1,
                 !.stage = "Dispatched", !.pc = 0,
                 !.progress = 5, !.log = <<>>, !.failedAt = "none",
                 !.tmpOut = "none", !.gcsUri = "none", !.transcript = <<>>,
                 !.summary = <<>>, !.aiFailed = FALSE]]
  /\ UNCHANGED <<entry, clock, faults, gcs, localFiles, cache>>
  /\ UNCHANGED <<httpVars, driveVars, fnVars, svcVars>>

\* The catch of processTranscription rethrows; the queue counts the attempt
\* and delays the job for another attempt or, the attempts used up, keeps
\* it as failed.
ThrowAndRetryAlways(job, step) ==
  [job EXCEPT !.log = Logged(@, step, FALSE),
              !.stage = "Failed",
              !.failedAt = step,
              !.attemptsMade = @ + 1,
              !.state = "delayed"]
Throw(job, step) ==
  [job EXCEPT !.log = Logged(@, step, FALSE),
              !.stage = "Failed",
              !.failedAt = step,
              !.attemptsMade = @ + 1,
              !.state = IF job.attemptsMade + 1 < Attempts THEN "delayed" ELSE "failed"]

\* The step has returned: the attempt goes on with the next one.
StageDone(job, step) ==
  [job EXCEPT !.log = Logged(@, step, TRUE),
              !.stage = StageAfter(step),
              !.pc = @ + 1,
              !.progress = ProgressAfter(step, @)]

\* Step 1, getCombinedAudioFromDrive: the first complete-recording file of
\* the audio folder.
GetCombinedAudio(j, ok) ==
  /\ AtStep(j, "fetch")
  /\ Fail(B(ok))
  /\ jobs' = [jobs EXCEPT ![j] =
       IF ok /\ audio # <<>> THEN StageDone(@, "fetch") ELSE Throw(@, "fetch")]
  /\ UNCHANGED <<entry, clock, gcs, localFiles, cache>>
  /\ UNCHANGED <<httpVars, driveVars, fnVars, svcVars>>

\* Step 2, optimizeAudioForTranscription: writes input-<now>.wav, runs
\* ffmpeg into optimized-<now>.flac and unlinks the input on 'end'.
OptimizeAudio(j, outcome, unlinkOk, partial) ==
  LET inputPath == TempPath("input", clock)
      outputPath == TempPath("optimized", clock)
  IN /\ AtStep(j, "optimize")
     /\ outcome \in {"ok", "writeFails", "ffmpegFails"}
     /\ outcome # "ok" => unlinkOk
     /\ outcome # "ffmpegFails" => ~partial
     /\ Fail(B(outcome = "ok") + B(unlinkOk))
     /\ jobs' = [jobs EXCEPT ![j] =
          IF outcome = "ok"
          THEN [StageDone(@, "optimize") EXCEPT !.tmpOut = outputPath]
          ELSE Throw(@, "optimize")]
     /\ localFiles' =
          CASE outcome = "ok" ->
                 (IF unlinkOk THEN localFiles \ {inputPath}
                  ELSE localFiles \cup {inputPath}) \cup {outputPath}
            [] outcome = "writeFails" -> localFiles
            [] outcome = "ffmpegFails" ->
                 localFiles \cup {inputPath} \cup (IF partial THEN {outputPath} ELSE {})
     /\ UNCHANGED <<entry, clock, gcs, cache>>
     /\ UNCHANGED <<httpVars, driveVars, fnVars, svcVars>>

\* Step 3, uploadToGCS: transcription-<recordingId>-<now>.flac.
UploadToGCS(j, ok) ==
  LET key == QueueStagingKey("rec", clock)
  IN /\ AtStep(j, "upload")
     /\ Fail(B(ok))
     /\ jobs' = [jobs EXCEPT ![j] =
          IF ok THEN [StageDone(@, "upload") EXCEPT !.gcsUri = key]
          ELSE Throw(@, "upload")]
     /\ gcs' = IF ok THEN gcs \cup {key} ELSE gcs
     /\ UNCHANGED <<entry, clock, localFiles, cache>>
     /\ UNCHANGED <<httpVars, driveVars, fnVars, svcVars>>

\* Step 4, transcribeAudioWithMedicalContext: the long-running recognition,
\* then in `finally` the deletion of the staging object, whose failure is
\* caught.
Transcribe(j, ok, transcript, deleteOk) ==
  LET afterDelete(job) == [job EXCEPT !.log = Logged(@, "unstage", deleteOk)]
  IN /\ AtStep(j, "transcribe")
     /\ jobs[j].stage # "Transcribing"
     /\ transcript \in SampleTranscripts
     /\ Fail(B(ok) + B(deleteOk))
     /\ jobs' = [jobs EXCEPT ![j] =
          IF ok
          THEN afterDelete([StageDone(@, "transcribe") EXCEPT !.transcript = transcript])
          ELSE afterDelete(Throw(@, "transcribe"))]
     /\ gcs' = IF deleteOk THEN gcs \ {jobs[j].gcsUri} ELSE gcs
     /\ UNCHANGED <<entry, clock, localFiles, cache>>
     /\ UNCHANGED <<httpVars, driveVars, fnVars, svcVars>>

\* The long-running operation of Speech-to-Text never completes: the
\* attempt stays in `await operation.promise()`, which no timer bounds (nor
\* do the job options set a job timeout).
OperationNeverCompletes(j) ==
  /\ AtStep(j, "transcribe")
  /\ jobs[j].stage # "Transcribing"
  /\ jobs' = [jobs EXCEPT ![j].stage = "Transcribing"]
  /\ UNCHANGED <<entry, clock, faults, gcs, localFiles, cache>>
  /\ UNCHANGED <<httpVars, driveVars, fnVars, svcVars>>

\* Step 5, generateMedicalSummary: never throws.
Summarize(j, aiFails) ==
  /\ AtStep(j, "summarize")
  /\ Fail(B(~aiFails))
  /\ jobs' = [jobs EXCEPT ![j] =
       [StageDone(@, "summarize") EXCEPT
          !.aiFailed = aiFails,
          !.summary = generateMedicalSummary(jobs[j].transcript, aiFails)]]
  /\ UNCHANGED <<entry, clock, gcs, localFiles, cache>>
  /\ UNCHANGED <<httpVars, driveVars, fnVars, svcVars>>

\* The uploads of a failed Promise.all that were written all the same.
PartialWrites ==
  { {}, {"transcript.txt"}, {"summary.txt", "summary.html"},
    ResultFiles \ {"summary.html"} }

\* saveResultsToDrive rethrows a failure of the results folder or of one of
\* the uploads as "Failed to save results".
SaveFailureSwallowed(job, step) ==
  [job EXCEPT !.log = Logged(@, step, FALSE), !.stage = StageAfter(step),
              !.pc = @ + 1]
SaveFailure(job, step) == Throw(job, step)

\* Step 6, saveResultsToDrive: the results folder, the four uploads of one
\* Promise.all (any of them may fail while the others are written), then the
\* session metadata, whose failure updateSessionMetadata only logs.
SaveResults(j, folderOk, written, metaOk) ==
  LET job == jobs[j]
      ok == folderOk /\ written = ResultFiles
  IN /\ AtStep(j, "persist")
     /\ written \in PartialWrites \cup {ResultFiles}
     /\ ~folderOk => written = {}
     /\ ~ok => metaOk
     /\ Fail(B(ok) + B(metaOk))
     /\ jobs' = [jobs EXCEPT ![j] =
          IF ok THEN [StageDone(@, "persist") EXCEPT
                        !.log = Logged(Logged(job.log, "persist", TRUE), "metadata", metaOk)]
          ELSE SaveFailure(@, "persist")]
     /\ results' = IF written # {}
                   THEN WriteResultSet(results, [ts |-> clock, by |-> "queue",
                                         files |-> written,
                                         transcript |-> job.transcript,
                                         summary |-> job.summary])
                   ELSE results
     /\ metadata' = IF ok /\ metaOk
                    THEN [status |-> "completed", completedAt |-> clock,
                          transcriptLength |-> TextLength(job.transcript)]
                    ELSE metadata
     /\ UNCHANGED <<entry, clock, gcs, localFiles, cache, audio>>
     /\ UNCHANGED <<httpVars, fnVars, svcVars>>

\* cleanupTempFiles catches a failure of unlink and only warns.
CleanupFailureRethrown(job, step) == Throw(job, step)
CleanupFailure(job, step) ==
  [job EXCEPT !.log = Logged(@, step, FALSE), !.stage = StageAfter(step),
              !.pc = @ + 1]

\* Step 7, cleanupTempFiles: unlinks the optimized file.
CleanupTempFiles(j, ok) ==
  /\ AtStep(j, "cleanup")
  /\ Fail(B(ok))
  /\ jobs' = [jobs EXCEPT ![j] =
       IF ok THEN StageDone(@, "cleanup") ELSE CleanupFailure(@, "cleanup")]
  /\ localFiles' = IF ok THEN localFiles \ {jobs[j].tmpOut} ELSE localFiles
  /\ UNCHANGED <<entry, clock, gcs, cache>>
  /\ UNCHANGED <<httpVars, driveVars, fnVars, svcVars>>

\* Step 8, cacheService.set(`recording:${recordingId}`, ..., 3600): a failure
\* of the cache is caught in CacheService.set.
CacheResults(j, ok) ==
  /\ AtStep(j, "cache")
  /\ Fail(B(ok))
  /\ jobs' = [jobs EXCEPT ![j] =
       IF ~ok /\ OnBackendError("set").threw THEN Throw(@, "cache")
       ELSE [@ EXCEPT !.log = Logged(@, "cache", ok), !.stage = StageAfter("cache"),
                      !.pc = @ + 1]]
  /\ cache' = IF ok THEN [present |-> TRUE, transcript |-> jobs[j].transcript,
                          summary |-> jobs[j].summary, ttl |-> CacheTtl]
              ELSE cache
  /\ UNCHANGED <<entry, clock, gcs, localFiles>>
  /\ UNCHANGED <<httpVars, driveVars, fnVars, svcVars>>

\* job.progress(100); return {transcript, summary}: the queue removes the
\* completed job (removeOnComplete).
Complete(j) ==
  /\ entry = "queue"
  /\ jobs[j].state = "active" /\ jobs[j].pc = Len(PipelineOrder)
  /\ jobs' = [jobs EXCEPT ![j] =
       [@ EXCEPT !.stage = "Done", !.progress = 100, !.state = "completed",
                 !.returned = [kind |-> "ok", transcript |-> jobs[j].transcript,
                               summary |-> jobs[j].summary]]]
  /\ UNCHANGED <<entry, clock, faults, gcs, localFiles, cache>>
  /\ UNCHANGED <<httpVars, driveVars, fnVars, svcVars>>

\* ------------------------------------------- Drive folders of the service
\* Objects of the user's Drive that deleteFolder may be pointed at: a folder
\* with a file in it, and a file.
ObjectIds == {"dir", "child", "doc"}
DriveObjects ==
  [id \in ObjectIds |->
     [mimeType |-> IF id = "dir" THEN "application/vnd.google-apps.folder"
                   ELSE "text/plain",
      parent |-> IF id = "child" THEN "dir" ELSE "root",
      present |-> TRUE]]

\* if (folderCheck.data.mimeType !== 'application/vnd.google-apps.folder') return
IsFolderUnchecked(object) == TRUE
IsFolder(object) == object.mimeType = "application/vnd.google-apps.folder"

\* deleteFolder: files.get of the mimeType (an error for an object that is
\* gone), the folder check, files.delete of the folder with its contents;
\* every error is caught and logged.
DeleteFolder(id, getOk, deleteOk) ==
  LET found == getOk /\ objects[id].present
      deletes == found /\ IsFolder(objects[id]) /\ deleteOk
  IN /\ entry = "drive"
     /\ ~(found /\ IsFolder(objects[id])) => deleteOk
     /\ Fail(B(getOk) + B(deleteOk))
     /\ objects' =
          IF deletes
          THEN [o \in ObjectIds |->
                  IF o = id \/ objects[o].parent = id
                  THEN [objects[o] EXCEPT !.present = FALSE]
                  ELSE objects[o]]
          ELSE objects
     /\ svcOut' = [op |-> "deleteFolder", key |-> id, ok |-> getOk /\ deleteOk,
                   result |-> Void]
     /\ UNCHANGED <<entry, clock, gcs, redis, rootFolders, calls, acquirers, stagers>>
     /\ UNCHANGED <<httpVars, queueVars, driveVars, fnVars>>

\* getOrCreateScribeBotFolder, called by concurrent requests of one user.
\* The 'scribe-bot' folders of the Drive are numbered 1..rootFolders.
Callers == 1..MaxCallers
NoCall == [pc |-> "idle", result |-> 0]

\* drive.files.list of the folders named 'scribe-bot': files[0] of a
\* listing without orderBy, or nothing.
RootList(c, ok, found) ==
  /\ entry = "drive"
  /\ calls[c].pc = "idle"
  /\ Fail(B(ok))
  /\ found \in 0..rootFolders
  /\ found = 0 <=> (rootFolders = 0 \/ ~ok)
  /\ calls' = [calls EXCEPT ![c] =
       IF ~ok THEN [pc |-> "failed", result |-> 0]
       ELSE IF found # 0 THEN [pc |-> "done", result |-> found]
       ELSE [pc |-> "creating", result |-> 0]]
  /\ UNCHANGED <<entry, clock, gcs, redis, svcOut, objects, rootFolders, acquirers,
                 stagers>>
  /\ UNCHANGED <<httpVars, queueVars, driveVars, fnVars>>

\* drive.files.create of a folder named 'scribe-bot'.
RootCreate(c, ok) ==
  /\ entry = "drive"
  /\ calls[c].pc = "creating"
  /\ Fail(B(ok))
  /\ rootFolders' = IF ok THEN rootFolders + 1 ELSE rootFolders
  /\ calls' = [calls EXCEPT ![c] =
       IF ok THEN [pc |-> "done", result |-> rootFolders + 1]
       ELSE [pc |-> "failed", result |-> 0]]
  /\ UNCHANGED <<entry, clock, gcs, redis, svcOut, objects, acquirers, stagers>>
  /\ UNCHANGED <<httpVars, queueVars, driveVars, fnVars>>

FolderNext ==
  \/ \E id \in ObjectIds, getOk, deleteOk \in BOOLEAN : DeleteFolder(id, getOk, deleteOk)
  \/ \E c \in Callers, ok \in BOOLEAN, found \in 0..rootFolders : RootList(c, ok, found)
  \/ \E c \in Callers, ok \in BOOLEAN : RootCreate(c, ok)

\* -------------------------------------------------- concurrent staging
\* Transcriptions running at the same time, each for a recording of its
\* own choice and on one of the two paths (stopRecording requests of the
\* server, 'process' jobs of several worker processes): the upload of the
\* audio to the staging bucket and the deletion after the recognition.
RecordingIds == {"rec", "rec2"}
NoStaging ==
  [pc |-> "idle", path |-> "", recordingId |-> "", tmp |-> TempPath("", 0),
   key |-> [prefix |-> "", id |-> "", ts |-> 0]]
StagingKey(path, recordingId, now) ==
  IF path = "http" THEN HttpStagingKey(recordingId, now)
  ELSE QueueStagingKey(recordingId, now)

StageCall(c, call) ==
  /\ entry = "stage"
  /\ stagers' = [stagers EXCEPT ![c] = call]
  /\ UNCHANGED <<entry, clock, redis, svcOut, objects, rootFolders, calls, acquirers>>
  /\ UNCHANGED <<httpVars, queueVars, driveVars, fnVars>>

StageUpload(c, path, recordingId, ok) ==
  LET key == StagingKey(path, recordingId, clock)
  IN /\ stagers[c].pc = "idle"
     /\ Fail(B(ok))
     /\ gcs' = IF ok THEN gcs \cup {key} ELSE gcs
     /\ path = "http" => stagers[c].tmp = NoStaging.tmp
     /\ StageCall(c, [pc |-> IF ok THEN "staged" ELSE "failed", path |-> path,
                      recordingId |-> recordingId, tmp |-> stagers[c].tmp,
                      key |-> key])

StageDelete(c, ok) ==
  /\ stagers[c].pc = "staged"
  /\ Fail(B(ok))
  /\ gcs' = IF ok THEN gcs \ {stagers[c].key} ELSE gcs
  /\ StageCall(c, [stagers[c] EXCEPT !.pc = "ended"])

\* The optimize stage of a job attempt that runs while others do: it
\* writes input-<now>.wav and leaves optimized-<now>.flac for the upload.
StageOptimize(c) ==
  LET outputPath == TempPath("optimized", clock)
  IN /\ entry = "stage"
     /\ stagers[c].pc = "idle" /\ stagers[c].tmp = NoStaging.tmp
     /\ stagers' = [stagers EXCEPT ![c].tmp = outputPath]
     /\ localFiles' = localFiles \cup {outputPath}
     /\ UNCHANGED <<entry, clock, faults, gcs, jobs, cache>>
     /\ UNCHANGED <<redis, svcOut, objects, rootFolders, calls, acquirers>>
     /\ UNCHANGED <<httpVars, driveVars, fnVars>>

StageNext ==
  \/ entry = "stage" /\ Tick
  \/ \E c \in Callers : StageOptimize(c)
  \/ \E c \in Callers, path \in {"http", "queue"}, r \in RecordingIds, ok \in BOOLEAN :
        StageUpload(c, path, r, ok)
  \/ \E c \in Callers, ok \in BOOLEAN : StageDelete(c, ok)

\* ----------------------------------------------- CacheService.acquireLock
\* Concurrent callers of acquireLock('L', ttl, maxWaitMs). One unit of the
\* clock is the 100 ms the loop sleeps between two attempts; maxWaitMs is
\* MaxWaitTicks units. Caller c draws the lock id c.
NoAcquire == [pc |-> "idle", startTime |-> 0, result |-> 0]
LockTtl == 60

\* The loop condition Date.now() - startTime < maxWaitMs.
WithinWaitForever(now, startTime) == TRUE
WithinWait(now, startTime) == now - startTime < MaxWaitTicks

\* No loop that honours maxWaitMs moves the clock this far.
LockClockCap == MaxCallers * (MaxWaitTicks + MaxSleepTicks)

LockCall(c, call) ==
  /\ entry = "lock"
  /\ acquirers' = [acquirers EXCEPT ![c] = call]
  /\ UNCHANGED <<entry, gcs, svcOut, objects, rootFolders, calls, stagers>>
  /\ UNCHANGED <<httpVars, queueVars, driveVars, fnVars>>

\* lockId and startTime are taken.
AcquireStart(c) ==
  /\ acquirers[c].pc = "idle"
  /\ LockCall(c, [pc |-> "looping", startTime |-> clock, result |-> 0])
  /\ UNCHANGED <<clock, faults, redis>>

\* One evaluation of the loop condition and, inside the loop, one setNX.
AcquireAttempt(c, ok) ==
  /\ acquirers[c].pc = "looping"
  /\ IF ~WithinWait(clock, acquirers[c].startTime)
     THEN /\ ok
          /\ LockCall(c, [acquirers[c] EXCEPT !.pc = "returned", !.result = 0])
          /\ UNCHANGED <<faults, redis>>
     ELSE LET out == setNX(redis, "lock:L", c, LockTtl, ok)
          IN /\ Fail(B(ok))
             /\ redis' = out.store
             /\ LockCall(c, IF out.result.b
                             THEN [acquirers[c] EXCEPT !.pc = "returned", !.result = c]
                             ELSE [acquirers[c] EXCEPT !.pc = "sleeping"])
  /\ UNCHANGED clock

\* The 100 ms timer fires, d units after it was set.
AcquireSleep(c, d) ==
  /\ acquirers[c].pc = "sleeping"
  /\ clock + d <= LockClockCap
  /\ clock' = clock + d
  /\ LockCall(c, [acquirers[c] EXCEPT !.pc = "looping"])
  /\ UNCHANGED <<faults, redis>>

\* A caller that holds a lock id gives it back through releaseLock.
ReleaseAcquired(c, ok) ==
  /\ acquirers[c].pc = "returned" /\ acquirers[c].result # 0
  /\ LET out == releaseLock(redis, acquirers[c].result, ok)
     IN /\ Fail(B(ok))
        /\ redis' = out.store
        /\ LockCall(c, [acquirers[c] EXCEPT !.pc = "released"])
  /\ UNCHANGED clock

AcquireStep(c) ==
  \/ \E ok \in BOOLEAN : AcquireAttempt(c, ok)
  \/ \E d \in 1..MaxSleepTicks : AcquireSleep(c, d)

LockNext ==
  \/ \E c \in Callers : AcquireStart(c)
  \/ \E c \in Callers : AcquireStep(c)
  \/ \E c \in Callers, ok \in BOOLEAN : ReleaseAcquired(c, ok)
  \/ entry = "lock" /\ Expire("lock:L")

\* ------------------------------------------------ pure functions applied
Vocabulary ==
  { W("Doctor:"), W("hello"), W("diagnosis"), Wt("diagnosis", "."), W("Plan"),
    W("explanation"), Wt("rest", "."), W("follow"), W("up") }

TranscriptInputs == UNION { [1..k -> Vocabulary] : k \in 0..MaxWords }

ApplySummary ==
  /\ entry = "fn"
  /\ fnOut = NoResponse
  /\ fnOut' = [kind |-> "ok",
               summary |-> generateMedicalSummary(fnIn.transcript, fnIn.aiFails)]
  /\ UNCHANGED <<entry, clock, faults, gcs, fnIn>>
  /\ UNCHANGED <<httpVars, queueVars, driveVars, svcVars>>

\* The speaker labelling of transcribeAudioWithMedicalContext. A response
\* is a sequence of results, a result the words of its first alternative, a
\* word {word, speakerTag}; speakerTag 0 is a word without tag. The
\* transcript is the sequence of its whitespace-separated tokens, "\n" a
\* line break.
SpeakerTags == {1, 2, 3}
RecognizedWord(tag) == [word |-> "w", speakerTag |-> tag]

\* `let currentSpeaker = null` stands before results.forEach: a result
\* starts with the speaker the previous one ended with.
SpeakerEnteringResultReset(currentSpeaker) == 0
SpeakerEnteringResult(currentSpeaker) == currentSpeaker

SpeakerLabel(speakerTag) == IF speakerTag = 1 THEN "Doctor:" ELSE "Patient:"

\* One pass of `for (const word of words)`.
RenderWord(st, word) ==
  LET change == word.speakerTag # 0 /\ word.speakerTag # st.currentSpeaker
      broken == IF change /\ st.currentSpeaker # 0
                THEN Append(st.transcript, "\n") ELSE st.transcript
      labelled == IF change THEN Append(broken, SpeakerLabel(word.speakerTag))
                  ELSE broken
  IN [transcript |-> Append(labelled, word.word),
      currentSpeaker |-> IF change THEN word.speakerTag ELSE st.currentSpeaker]

RECURSIVE RenderWords(_, _)
RenderWords(st, words) ==
  IF words = <<>> THEN st ELSE RenderWords(RenderWord(st, Head(words)), Tail(words))

\* One pass of results.forEach: the words, then a line break.
RenderResult(st, words) ==
  LET entering == [st EXCEPT !.currentSpeaker = SpeakerEnteringResult(@)]
      done == RenderWords(entering, words)
  IN IF Len(words) > 0 THEN [done EXCEPT !.transcript = Append(@, "\n")] ELSE done

RECURSIVE RenderResults(_, _)
RenderResults(st, rs) ==
  IF rs = <<>> THEN st ELSE RenderResults(RenderResult(st, Head(rs)), Tail(rs))

\* .replace(/\s+/g, ' ') turns every line break into a space, which leaves
\* .replace(/\n\s*\n/g, '\n') nothing to do; .trim().
CleanUp(transcript) == SelectSeq(transcript, LAMBDA t : t # "\n")

RenderTranscript(rs) ==
  CleanUp(RenderResults([transcript |-> <<>>, currentSpeaker |-> 0], rs).transcript)

\* The responses with at most MaxSpokenWords tagged words, cut into results
\* at any places.
RECURSIVE CutIntoResults(_, _)
CutIntoResults(tags, cuts) ==
  IF tags = <<>> THEN <<>>
  ELSE LET n == CHOOSE k \in 1..Len(tags) :
                  (k = Len(tags) \/ k \in cuts) /\ \A i \in 1..(k-1) : i \notin cuts
       IN <<[i \in 1..n |-> RecognizedWord(tags[i])]>>
          \o CutIntoResults(SubSeq(tags, n + 1, Len(tags)),
                            {c - n : c \in {d \in cuts : d > n}})

RecognitionInputs ==
  UNION { { CutIntoResults(tags, cuts) : tags \in [1..k -> SpeakerTags],
                                         cuts \in SUBSET (1..(k-1)) }
          : k \in 0..MaxSpokenWords }

\* transcript.split('\n').
RECURSIVE SplitLines(_)
SplitLines(transcript) ==
  IF \A i \in 1..Len(transcript) : transcript[i] # "\n" THEN <<transcript>>
  ELSE LET n == CHOOSE k \in 1..Len(transcript) :
                  transcript[k] = "\n" /\ \A i \in 1..(k-1) : transcript[i] # "\n"
       IN <<SubSeq(transcript, 1, n - 1)>>
          \o SplitLines(SubSeq(transcript, n + 1, Len(transcript)))

\* The paragraphs of formatTranscriptAsHtml: one <p> per non-blank line,
\* of the speaker's class when the line starts with the speaker's label.
ParagraphOf(line) ==
  [class |-> IF line[1] = "Doctor:" THEN "doctor-speech"
             ELSE IF line[1] = "Patient:" THEN "patient-speech" ELSE "",
   line |-> line]
formatTranscriptAsHtml(transcript) ==
  LET lines == SplitLines(transcript)
      NonBlank(line) == line # <<>>
      kept == SelectSeq(lines, NonBlank)
  IN [i \in 1..Len(kept) |-> ParagraphOf(kept[i])]

ApplyRender ==
  /\ entry = "render"
  /\ fnOut = NoResponse
  /\ fnOut' = LET transcript == RenderTranscript(fnIn.results)
              IN [kind |-> "ok", transcript |-> transcript,
                  paragraphs |-> formatTranscriptAsHtml(transcript)]
  /\ UNCHANGED <<entry, clock, faults, gcs, fnIn>>
  /\ UNCHANGED <<httpVars, queueVars, driveVars, svcVars>>

\* ---------------------------------------------------------- specification
IdleInit ==
  /\ clock = 0 /\ faults = 0
  /\ tempChunks = <<>> /\ nUploads = 0 /\ nStops = 0
  /\ results = <<>> /\ metadata = NoMetadata /\ gcs = {}
  /\ httpLog = <<>> /\ response = NoResponse /\ got = NoResponse
  /\ jobs = [j \in Jobs |-> NoJob] /\ localFiles = {} /\ cache = NoCache
  /\ fnOut = NoResponse
  /\ redis = EmptyRedis /\ svcOut = NoResponse
  /\ objects = DriveObjects /\ rootFolders = 0
  /\ calls = [c \in Callers |-> NoCall]
  /\ acquirers = [c \in Callers |-> NoAcquire]
  /\ stagers = [c \in Callers |-> NoStaging]

\* A recording after startRecording, driven through the controller.
HttpInit ==
  /\ entry = "http" /\ IdleInit /\ audio = <<>> /\ fnIn = NoResponse

\* A recording with or without a saved complete-recording file, for which an
\* external producer enqueues jobs.
QueueInit ==
  /\ entry = "queue" /\ IdleInit /\ fnIn = NoResponse
  /\ audio \in {<<>>, <<[ts |-> 0, data |-> <<1>>]>>}

\* The queue when at most one more external call fails.
PoolInit ==
  /\ entry = "queue" /\ fnIn = NoResponse
  /\ audio = <<[ts |-> 0, data |-> <<1>>]>>
  /\ clock = 0 /\ faults = MaxFaults - 1
  /\ tempChunks = <<>> /\ nUploads = 0 /\ nStops = 0
  /\ results = <<>> /\ metadata = NoMetadata /\ gcs = {}
  /\ httpLog = <<>> /\ response = NoResponse /\ got = NoResponse
  /\ jobs = [j \in Jobs |-> NoJob] /\ localFiles = {} /\ cache = NoCache
  /\ fnOut = NoResponse
  /\ redis = EmptyRedis /\ svcOut = NoResponse
  /\ objects = DriveObjects /\ rootFolders = 0
  /\ calls = [c \in Callers |-> NoCall]
  /\ acquirers = [c \in Callers |-> NoAcquire]
  /\ stagers = [c \in Callers |-> NoStaging]

FnInit ==
  /\ entry = "fn" /\ IdleInit /\ audio = <<>>
  /\ fnIn \in [transcript : TranscriptInputs, aiFails : BOOLEAN]

\* The cache service and the folder helpers, called on their own.
CacheInit ==
  /\ entry = "cache" /\ IdleInit /\ audio = <<>> /\ fnIn = NoResponse

FolderInit ==
  /\ entry = "drive" /\ IdleInit /\ audio = <<>> /\ fnIn = NoResponse

StageInit ==
  /\ entry = "stage" /\ IdleInit /\ audio = <<>> /\ fnIn = NoResponse

RenderInit ==
  /\ entry = "render" /\ IdleInit /\ audio = <<>>
  /\ fnIn \in [results : RecognitionInputs]

LockInit ==
  /\ entry = "lock" /\ IdleInit /\ audio = <<>> /\ fnIn = NoResponse

Init ==
  \/ HttpInit \/ QueueInit \/ FnInit \/ CacheInit \/ FolderInit \/ LockInit
  \/ RenderInit \/ StageInit

HttpNext ==
  \/ Tick
  \/ \E n \in ChunkNumbers, ok \in BOOLEAN : UploadChunk(n, ok)
  \/ /\ nStops < MaxStops
     /\ \E o \in StopOutcomes, p \in ListByName(tempChunks) : StopRecording(o, p)
  \/ \E ok \in BOOLEAN, t, s \in 0..Len(results) : GetResults(ok, t, s)

\* A client that uploads chunks and asks to stop the same recording again.
RepeatNext ==
  \/ Tick
  \/ \E n \in ChunkNumbers, ok \in BOOLEAN : UploadChunk(n, ok)
  \/ /\ nStops < MaxRepeatedStops
     /\ \E o \in StopOutcomes, p \in ListByName(tempChunks) : StopRecording(o, p)

QueueNext ==
  \/ Tick
  \/ \E j \in 1..MaxJobs : Enqueue(j)
  \/ \E j \in Jobs : Dispatch(j)
  \/ \E j \in Jobs, ok \in BOOLEAN : GetCombinedAudio(j, ok)
  \/ \E j \in Jobs, outcome \in {"ok", "writeFails", "ffmpegFails"},
        unlinkOk, partial \in BOOLEAN : OptimizeAudio(j, outcome, unlinkOk, partial)
  \/ \E j \in Jobs, ok \in BOOLEAN : UploadToGCS(j, ok)
  \/ \E j \in Jobs, ok, deleteOk \in BOOLEAN, transcript \in SampleTranscripts :
        Transcribe(j, ok, transcript, deleteOk)
  \/ \E j \in Jobs : OperationNeverCompletes(j)
  \/ \E j \in Jobs, aiFails \in BOOLEAN : Summarize(j, aiFails)
  \/ \E j \in Jobs, folderOk, metaOk \in BOOLEAN,
        written \in PartialWrites \cup {ResultFiles} :
        SaveResults(j, folderOk, written, metaOk)
  \/ \E j \in Jobs, ok \in BOOLEAN : CleanupTempFiles(j, ok)
  \/ \E j \in Jobs, ok \in BOOLEAN : CacheResults(j, ok)
  \/ \E j \in Jobs : Complete(j)

\* The queue with every job of Jobs enqueued.
PoolNext == QueueNext \/ \E j \in Jobs : Enqueue(j)

\* The DELETE route of the controller.
DeleteRoute == \E ok \in BOOLEAN : DeleteRecording(ok)

FnNext == ApplySummary
RenderNext == ApplyRender

Next ==
  \/ HttpNext \/ QueueNext \/ FnNext \/ CacheNext \/ FolderNext \/ LockNext
  \/ RenderNext \/ StageNext

\* The whole program; the controller and its service; the queue and its
\* processor; the pure functions.
Spec == Init /\ [][Next]_vars
HttpSpec == HttpInit /\ [][HttpNext]_vars
QueueSpec == QueueInit /\ [][QueueNext]_vars
FnSpec == FnInit /\ [][FnNext]_vars
CacheSpec == CacheInit /\ [][CacheNext]_vars
FolderSpec == FolderInit /\ [][FolderNext]_vars
PoolSpec == PoolInit /\ [][PoolNext]_vars
StageSpec == StageInit /\ [][StageNext]_vars
RenderSpec == RenderInit /\ [][RenderNext]_vars

\* Every await of an acquireLock call returns: the reply of Redis (setNX
\* turns an error into false) and the 100 ms timer.
LockSpec ==
  LockInit /\ [][LockNext]_vars /\ \A c \in Callers : WF_vars(AcquireStep(c))
\* The cache service called on its own and by the jobs of the queue.
CacheUseSpec == (CacheInit \/ QueueInit) /\ [][CacheNext \/ QueueNext]_vars
RepeatSpec == HttpInit /\ [][RepeatNext]_vars
\* The queue and its processor with a client that asks for the results.
ReadNext ==
  \/ QueueNext
  \/ \E ok \in BOOLEAN, t, s \in 0..Len(results) : GetResults(ok, t, s)

\* The jobs of the queue with a DELETE request arriving at any moment.
DeleteNext == QueueNext \/ DeleteRoute
DeleteSpec == QueueInit /\ [][DeleteNext]_vars
ReadSpec == QueueInit /\ [][ReadNext]_vars
RerunSpec == (HttpInit \/ QueueInit) /\ [][RepeatNext \/ QueueNext]_vars

\* The controller and its service while every external call succeeds, the
\* client polling getResults again and again.
ReliableInit ==
  /\ entry = "http" /\ audio = <<>> /\ fnIn = NoResponse
  /\ clock = 0 /\ faults = MaxFaults
  /\ tempChunks = <<>> /\ nUploads = 0 /\ nStops = 0
  /\ results = <<>> /\ metadata = NoMetadata /\ gcs = {}
  /\ httpLog = <<>> /\ response = NoResponse /\ got = NoResponse
  /\ jobs = [j \in Jobs |-> NoJob] /\ localFiles = {} /\ cache = NoCache
  /\ fnOut = NoResponse
  /\ redis = EmptyRedis /\ svcOut = NoResponse
  /\ objects = DriveObjects /\ rootFolders = 0
  /\ calls = [c \in Callers |-> NoCall]
  /\ acquirers = [c \in Callers |-> NoAcquire]
  /\ stagers = [c \in Callers |-> NoStaging]

Poll == \E t, s \in 0..Len(results) : GetResults(TRUE, t, s)

ReliableSpec == ReliableInit /\ [][HttpNext]_vars /\ WF_vars(Poll)

\* ------------------------------------------------------------------ claims
Steps(log) == {log[i].step : i \in 1..Len(log)}
StepsOk(log) == {log[i].step : i \in {k \in 1..Len(log) : log[k].ok}}
StepsFailed(log) == {log[i].step : i \in {k \in 1..Len(log) : ~log[k].ok}}
Count(log, step) == Cardinality({i \in 1..Len(log) : log[i].step = step})
Position(log, step) == CHOOSE i \in 1..Len(log) : log[i].step = step

\* The contents of the chunks in ascending order of their sequence numbers.
RECURSIVE InSequenceOrder(_)
InSequenceOrder(chunks) ==
  IF chunks = <<>> THEN <<>>
  ELSE LET i == CHOOSE k \in 1..Len(chunks) :
                  \A l \in 1..Len(chunks) : chunks[k].no <= chunks[l].no
           Other(c) == c # chunks[i]
       IN chunks[i].data \o InSequenceOrder(SelectSeq(chunks, Other))

DistinctNumbers(chunks) ==
  \A i, j \in 1..Len(chunks) : i # j => chunks[i].no # chunks[j].no

\* C1: whenever stopRecording saves the combined recording of chunks with
\* distinct sequence numbers, the saved bytes are the chunks' contents in
\* ascending sequence-number order, whatever order they arrived in and
\* whatever the numbers are (999 and 1000 included).
C1_CombinedInSequenceOrder ==
  [][(nStops' = nStops + 1 /\ Len(audio') = Len(audio) + 1
      /\ DistinctNumbers(tempChunks))
     => audio'[Len(audio')].data = InSequenceOrder(tempChunks)]_vars

\* C2: while every external call succeeds, once a chunk has been stored and
\* stopRecording has run on it, a getResults call eventually returns a
\* transcript and a summary that are both non-empty.
C2_ResultsEventuallyAvailable ==
  ("checkChunks" \in StepsOk(httpLog))
    ~> (got.kind = "ok" /\ got.transcript # <<>> /\ got.summary # <<>>)

C2_Witness ==
  /\ faults = MaxFaults /\ nUploads > 0 /\ nStops > 0
  /\ "checkChunks" \in StepsOk(httpLog)
  /\ got.kind = "ok" /\ got.transcript # <<>> /\ got.summary # <<>>

C4_Stages == <<"fetch", "optimize", "upload", "transcribe", "summarize", "persist">>

C4_EveryStageOnceInOrder ==
  \A j \in Jobs :
    LET log == jobs[j].log
    IN /\ \A i \in 1..5 :
            C4_Stages[i + 1] \in Steps(log) =>
              /\ C4_Stages[i] \in StepsOk(log)
              /\ Position(log, C4_Stages[i]) < Position(log, C4_Stages[i + 1])
       /\ \A step \in {"cleanup", "cache"} :
            step \in Steps(log) =>
              /\ "persist" \in StepsOk(log)
              /\ Position(log, "persist") < Position(log, step)
       /\ \A step \in Steps(log) : Count(log, step) = 1
       /\ jobs[j].progress = 100 => jobs[j].stage = "Done"
       /\ jobs[j].stage = "Done" =>
            /\ jobs[j].progress = 100
            /\ {C4_Stages[i] : i \in 1..6} \cup {"cleanup", "cache"} \subseteq Steps(log)

C4_Witness ==
  \E j \in Jobs : jobs[j].stage = "Done" /\ jobs[j].progress = 100

C6_FatalStages == {"fetch", "optimize", "upload", "transcribe", "persist"}

C6_StageFailureFailsTheRun ==
  \A j \in Jobs :
    LET job == jobs[j]
        log == job.log
    IN \A i \in 1..Len(log) :
         (log[i].step \in C6_FatalStages /\ ~log[i].ok) =>
           /\ job.stage = "Failed" /\ job.failedAt = log[i].step
           /\ job.state \in {"delayed", "failed"} /\ job.attemptsMade >= 1
           /\ job.progress < 100 /\ job.returned = NoResponse
           /\ \A k \in (i + 1)..Len(log) : log[k].step = "unstage"

C6_Witness ==
  \E j \in Jobs :
    /\ jobs[j].stage = "Failed" /\ jobs[j].failedAt = "persist"
    /\ "summarize" \in StepsOk(jobs[j].log)

\* C7: a failure while cleaning up (the local temporary file, the staging
\* object, the temp-chunk folder) never fails a run whose results were
\* produced: the run goes on, returns its transcript and summary, and the
\* persisted results stay.
C7_CleanupFailureIsAbsorbed ==
  /\ \A j \in Jobs :
       LET job == jobs[j]
           log == job.log
       IN /\ job.stage = "Failed" => job.failedAt \in C6_FatalStages
          /\ "cleanup" \in StepsFailed(log) =>
               /\ job.stage \in {"CleanedUp", "Cached", "Done"}
               /\ job.state \in {"active", "completed"}
               /\ \E i \in 1..Len(results) :
                    /\ results[i].files = ResultFiles
                    /\ results[i].transcript = job.transcript
                    /\ results[i].summary = job.summary
          /\ ("unstage" \in StepsFailed(log) /\ "transcribe" \in StepsOk(log)) =>
               (job.stage = "Failed" => job.failedAt = "persist")
          /\ job.stage = "Done" =>
               job.returned = [kind |-> "ok", transcript |-> job.transcript,
                               summary |-> job.summary]
  /\ (/\ StepsFailed(httpLog) \cap {"unstage", "deleteFolder"} # {}
      /\ StepsFailed(httpLog) \subseteq StopAbsorbed) =>
       /\ response.kind = "ok"
       /\ \E i \in 1..Len(results) :
            /\ results[i].files = ResultFiles
            /\ results[i].transcript = response.transcript

C7_Witness ==
  \E j \in Jobs :
    /\ {"cleanup", "unstage"} \subseteq StepsFailed(jobs[j].log)
    /\ jobs[j].stage = "Done" /\ jobs[j].returned.kind = "ok"

C9_Headers ==
  << <<W("##"), W("Chief"), W("Complaint")>>,
     <<W("##"), W("Assessment")>>,
     <<W("##"), W("Plan")>> >>

LinesEqual(text, line) == {i \in 1..Len(text) : text[i] = line}

C9_FallbackHasEverySectionOnce ==
  (fnOut.kind = "ok" /\ fnIn.aiFails) =>
    /\ fnOut.summary # <<>>
    /\ \A h \in 1..3 : Cardinality(LinesEqual(fnOut.summary, C9_Headers[h])) = 1
    /\ \A h \in 1..2 :
         \A a \in LinesEqual(fnOut.summary, C9_Headers[h]),
            b \in LinesEqual(fnOut.summary, C9_Headers[h + 1]) : a < b

C9_Witness ==
  /\ fnOut.kind = "ok" /\ fnIn.aiFails
  /\ extractSection(fnIn.transcript, FallbackSections[2].keywords) # <<>>
  /\ extractSection(fnIn.transcript, FallbackSections[3].keywords) = <<>>

\* C10: when the generative model has failed and the rule-based extraction
\* finds nothing for any section, the summary says that summary generation
\* failed and directs the reader to the transcript.
C10_NothingExtracted ==
  \A h \in 1..Len(FallbackSections) :
    extractSection(fnIn.transcript, FallbackSections[h].keywords) = <<>>

C10_SaysGenerationFailed ==
  (fnOut.kind = "ok" /\ fnIn.aiFails /\ C10_NothingExtracted) =>
    LinesEqual(fnOut.summary, FailureMessage[1]) # {}

\* C11: a job whose fetch stage finds no audio, or whose optimize stage
\* fails, is not retried: after that failure the job is failed for good and
\* the queue schedules no further attempt.
C11_FetchOrOptimizeFailureIsFinal ==
  \A j \in Jobs :
    jobs[j].failedAt \in {"fetch", "optimize"} =>
      /\ jobs[j].state = "failed"
      /\ jobs[j].attemptsStarted = 1

\* C12: no job is attempted more than 3 times; after a failed transcription
\* on attempt 1 or 2 the queue schedules another attempt, a failure on
\* attempt 3 is final, and a failed job is never run again.
C12_AtMostThreeAttempts ==
  /\ [](\A j \in Jobs :
         LET job == jobs[j]
         IN /\ job.attemptsStarted <= Attempts
            /\ job.attemptsMade <= job.attemptsStarted
            /\ job.stage = "Failed" =>
                 /\ job.attemptsMade = job.attemptsStarted
                 /\ job.attemptsMade < Attempts => job.state = "delayed"
                 /\ job.attemptsMade = Attempts => job.state = "failed"
            /\ job.state = "failed" => job.attemptsMade = Attempts)
  /\ [][\A j \in Jobs : jobs[j].state = "failed" => jobs'[j] = jobs[j]]_vars

C12_Witness ==
  \E j \in Jobs :
    /\ jobs[j].state = "failed" /\ jobs[j].failedAt = "transcribe"
    /\ jobs[j].attemptsStarted = 3

\* C13: once a job has terminated the recording's status is terminal, and
\* after a job has used up its attempts the status reads 'failed'.
C13_TerminatedJobHasTerminalStatus ==
  \A j \in Jobs :
    /\ jobs[j].state \in {"completed", "failed"} =>
         ReadStatus(metadata) \in {"completed", "failed"}
    /\ jobs[j].state = "failed" => ReadStatus(metadata) = "failed"

\* The metadata a run writes for the transcript it persisted.
C14_Metadata(transcript, now) ==
  [status |-> "completed", completedAt |-> now,
   transcriptLength |-> LineLen(transcript)]

C15_ResultsOnlyAdded ==
  [][/\ Len(results') >= Len(results)
     /\ SubSeq(results', 1, Len(results)) = results
     /\ Len(results') <= Len(results) + 1
     /\ \/ nStops' = nStops + 1 /\ "persist" \in StepsOk(httpLog')
        \/ \E j \in Jobs : Count(jobs'[j].log, "persist") > Count(jobs[j].log, "persist")
                            /\ "persist" \in StepsOk(jobs'[j].log)
        => /\ Len(results') = Len(results) + 1
           /\ results'[Len(results')].files = ResultFiles
           /\ results'[Len(results')].ts = clock]_vars

C15_Witness ==
  /\ Len(results) >= 2
  /\ results[1].files = ResultFiles /\ results[2].files = ResultFiles
  /\ results[1].ts < results[2].ts

\* C16: stopRecording on a recording whose temp-chunks folder holds no chunk,
\* never had one or lost them to an earlier stopRecording, fails with an
\* error and saves no audio, transcribes nothing and persists no result.
C16_StopWithoutChunksFails ==
  [][(nStops' = nStops + 1 /\ tempChunks = <<>>) =>
       /\ response' = [kind |-> "error", message |-> "Failed to process recording"]
       /\ audio' = audio /\ results' = results /\ gcs' = gcs
       /\ metadata' = metadata
       /\ {"saveAudio", "stage", "recognize", "persist"} \cap Steps(httpLog') = {}]_vars

C16_Witness ==
  /\ nStops = 2 /\ tempChunks = <<>> /\ nUploads > 0
  /\ "checkChunks" \in StepsFailed(httpLog)
  /\ response.kind = "error" /\ Len(audio) = 1 /\ Len(results) = 1

\* C17: getResults reads the cache first: with an entry for the recording
\* in the cache a call returns that entry and does not read the Drive
\* folder.
C17_CacheFirst ==
  [][(got' # got /\ cache.present) =>
       /\ got'.reads = {"cache"}
       /\ got'.transcript = cache.transcript
       /\ got'.summary = cache.summary]_vars

\* C18: no CacheService method lets a failure of the Redis backend reach
\* its caller: on such a failure get gives null, set, delete and
\* deletePattern return, increment gives 0, setNX and releaseLock give
\* false; so a job whose cache write fails still reaches Done, reports
\* progress 100 and returns its result.
C18_CacheFailuresNeverPropagate ==
  /\ (svcOut # NoResponse /\ svcOut.op \in
        {"get", "set", "delete", "deletePattern", "increment", "setNX", "releaseLock"}) =>
       /\ ~svcOut.result.threw
       /\ ~svcOut.ok =>
            svcOut.result =
              CASE svcOut.op = "get" -> [kind |-> "null", n |-> 0, b |-> FALSE, threw |-> FALSE]
                [] svcOut.op = "increment" ->
                     [kind |-> "int", n |-> 0, b |-> FALSE, threw |-> FALSE]
                [] svcOut.op \in {"setNX", "releaseLock"} ->
                     [kind |-> "bool", n |-> 0, b |-> FALSE, threw |-> FALSE]
                [] OTHER -> [kind |-> "void", n |-> 0, b |-> FALSE, threw |-> FALSE]
  /\ \A j \in Jobs :
       /\ jobs[j].failedAt # "cache"
       /\ "cache" \in StepsFailed(jobs[j].log) =>
            /\ jobs[j].stage \in {"Cached", "Done"}
            /\ jobs[j].state \in {"active", "completed"}
            /\ jobs[j].stage = "Done" =>
                 /\ jobs[j].progress = 100
                 /\ jobs[j].returned = [kind |-> "ok", transcript |-> jobs[j].transcript,
                                        summary |-> jobs[j].summary]

C18_Witness ==
  \E j \in Jobs :
    /\ "cache" \in StepsFailed(jobs[j].log) /\ ~cache.present
    /\ jobs[j].stage = "Done" /\ jobs[j].progress = 100

\* C19: deleteFolder called with the id of an existing object that is not a
\* folder deletes nothing: every object of the Drive is as before, the object
\* still exists, and the call returns without an error.
C19_NonFolderIsNotDeleted ==
  [][(/\ svcOut' # NoResponse
      /\ svcOut'.op = "deleteFolder"
      /\ objects[svcOut'.key].present
      /\ objects[svcOut'.key].mimeType # "application/vnd.google-apps.folder")
     => /\ objects' = objects
        /\ objects'[svcOut'.key].present
        /\ ~svcOut'.result.threw]_vars

C19_Witness ==
  /\ svcOut # NoResponse /\ svcOut.op = "deleteFolder" /\ svcOut.key = "doc"
  /\ svcOut.ok /\ objects["doc"].present

\* C20: after two concurrent get-or-create calls of a user who had no
\* 'scribe-bot' folder, exactly one such folder exists and both calls have
\* returned its id.
C20_OneRootFolder ==
  (\A c \in Callers : calls[c].pc = "done") =>
    /\ rootFolders = 1
    /\ \A c, d \in Callers : calls[c].result = calls[d].result

\* C21: releaseLock(name, id) removes the lock only when the lock's value
\* is id; a release by anyone else, a former holder whose lock expired and
\* was acquired by another caller included, returns false and leaves the
\* holder's lock as it is.
C21_ReleaseOnlyByHolder ==
  [][\A id \in LockIds, ok \in BOOLEAN :
       CacheReleaseLock(id, ok) =>
         IF ok /\ redis["lock:L"].kind = "raw" /\ redis["lock:L"].n = id
         THEN svcOut'.result.b /\ redis'["lock:L"] = Absent
         ELSE ~svcOut'.result.b /\ redis' = redis]_vars

C21_Witness ==
  /\ svcOut # NoResponse /\ svcOut.op = "releaseLock"
  /\ svcOut.ok /\ ~svcOut.result.b
  /\ redis["lock:L"].kind = "raw" /\ redis["lock:L"].ex

\* C22: every acquireLock call terminates. It returns its lock id as soon
\* as one of its set-if-absent attempts succeeds, and null once maxWaitMs
\* has passed since it started, even when the lock is never released and
\* the backend fails on every attempt.
C22_AcquireLockTerminates ==
  /\ [](\A c \in Callers :
         acquirers[c].pc \in {"returned", "released"} =>
           \/ acquirers[c].result = c
           \/ /\ acquirers[c].result = 0
              /\ clock - acquirers[c].startTime >= MaxWaitTicks)
  /\ \A c \in Callers :
       (acquirers[c].pc \in {"looping", "sleeping"})
         ~> (acquirers[c].pc \in {"returned", "released"})

\* A call gave up with null after the backend failed on each of its attempts.
C22_Witness ==
  \E c \in Callers :
    /\ acquirers[c].pc = "returned" /\ acquirers[c].result = 0
    /\ faults >= MaxWaitTicks
    /\ \A d \in Callers \ {c} : acquirers[d].pc = "idle"
    /\ redis["lock:L"].kind = "absent"

\* C23: the transcribe stage of a job attempt always ends: when the
\* recognition operation never completes, a timeout ends the stage as
\* failed, so an attempt in the transcribe stage can always leave it.
C23_TranscribeStageCanAlwaysEnd ==
  \A j \in Jobs :
    AtStep(j, "transcribe") =>
      ENABLED (\E ok, deleteOk \in BOOLEAN, transcript \in SampleTranscripts :
                 Transcribe(j, ok, transcript, deleteOk))

\* C24: errors reach the caller with their kind: a stopRecording that
\* found no audio chunks and a getResults that found no results answer
\* NotFound, which differs from the answer to a failure of a downstream
\* call.
C24_NotFoundIsNotTheGenericFailure ==
  /\ (response.kind = "error" /\ "checkChunks" \in StepsFailed(httpLog))
       => response.message # "Failed to process recording"
  /\ (got.kind = "error" /\ faults = 0)
       => got.message # "Failed to retrieve results"

\* The words of a response in spoken order, and the places where a maximal
\* run of words with one speaker tag starts.
RECURSIVE Flatten(_)
Flatten(rs) == IF rs = <<>> THEN <<>> ELSE Head(rs) \o Flatten(Tail(rs))
RunStarts(words) ==
  {k \in 1..Len(words) : k = 1 \/ words[k].speakerTag # words[k-1].speakerTag}
IsLabel(t) == t \in {"Doctor:", "Patient:"}
Labels(transcript) == SelectSeq(transcript, IsLabel)

\* C25: the rendered transcript has exactly one speaker label per maximal
\* run of consecutive words with the same tag, in run order and in front of
\* the run's first word, also when a run continues across the boundary of
\* two recognition results.
C25_OneLabelPerRun ==
  (entry = "render" /\ fnOut # NoResponse) =>
    LET words == Flatten(fnIn.results)
        out == fnOut.transcript
        spoken == {i \in 1..Len(out) : ~IsLabel(out[i])}
        \* the place in `out` of the k-th spoken word
        at(k) == CHOOSE i \in spoken : Cardinality({h \in spoken : h <= i}) = k
    IN /\ Len(Labels(out)) = Cardinality(RunStarts(words))
       /\ Cardinality(spoken) = Len(words)
       /\ \A k \in 1..Len(words) :
            k \in RunStarts(words) <=> (at(k) > 1 /\ IsLabel(out[at(k) - 1]))

\* Tags [1,1,2 | 2,1] in two results, rendered with three labels.
C25_Witness ==
  /\ entry = "render" /\ fnOut # NoResponse
  /\ Len(fnIn.results) = 2 /\ Len(fnIn.results[1]) = 3
  /\ Len(Flatten(fnIn.results)) = 5
  /\ [k \in 1..5 |-> Flatten(fnIn.results)[k].speakerTag] = <<1, 1, 2, 2, 1>>
  /\ Labels(fnOut.transcript) = <<"Doctor:", "Patient:", "Doctor:">>

\* C30: speaker labels follow the position convention: the runs of the tag
\* seen first in the response are labelled Doctor and the runs of every
\* other tag Patient, whatever the values of the tags.
C30_FirstSeenTagIsDoctor ==
  (entry = "render" /\ fnOut # NoResponse) =>
    LET words == Flatten(fnIn.results)
        starts == RunStarts(words)
        run(i) == CHOOSE k \in starts : Cardinality({h \in starts : h <= k}) = i
        labels == Labels(fnOut.transcript)
    IN \A i \in 1..Len(labels) :
         labels[i] = IF words[run(i)].speakerTag = words[1].speakerTag
                     THEN "Doctor:" ELSE "Patient:"

\* C26: at every moment the number of jobs the processor is running does
\* not exceed the configured concurrency, however many jobs are enqueued.
C26_InFlightWithinConcurrency ==
  Cardinality({j \in Jobs : jobs[j].state = "active"}) <= Concurrency

\* More jobs are enqueued than may run: one runs, another waits for it.
C26_Witness ==
  /\ Cardinality({j \in Jobs : jobs[j].state = "active"}) = Concurrency
  /\ \E j \in Jobs : jobs[j].state \in {"waiting", "delayed"}
  /\ Cardinality({j \in Jobs : jobs[j].state # "absent"}) > Concurrency

\* C27: whenever the transcribe stage has ended, by success or by failure,
\* the deletion of the staging object uploaded for it has been attempted,
\* in a queue job and in a stopRecording request alike.
C27_StagingObjectDeletedWhenTranscribeEnds ==
  /\ \A j \in Jobs :
       "transcribe" \in Steps(jobs[j].log) => "unstage" \in Steps(jobs[j].log)
  /\ "recognize" \in Steps(httpLog) =>
       /\ "unstage" \in Steps(httpLog)
       /\ "unstage" \in StepsOk(httpLog) =>
            \A key \in gcs : key.prefix # "recording" \/ key.ts # clock

\* C28: after a job attempt has ended, whether it succeeded or failed in
\* optimize or in a later stage, no local temporary file of the optimize
\* stage remains.
C28_NoTempFileOutlivesTheAttempt ==
  (\A j \in Jobs : jobs[j].state # "active") => localFiles = {}

\* C29: staging keys never collide: two transcriptions of different
\* recordings whose staging objects are in the bucket at the same time have
\* uploaded them to different keys, also when they uploaded at the same
\* clock millisecond.
C29_StagingKeysNeverCollide ==
  \A c, d \in Callers :
    (/\ c # d
     /\ stagers[c].pc = "staged" /\ stagers[d].pc = "staged"
     /\ stagers[c].recordingId # stagers[d].recordingId)
      => stagers[c].key # stagers[d].key

\* C31: the whitespace normalization keeps the line break between two
\* speaker runs: every speaker label of the final transcript starts a line,
\* and the formatter renders every speaker run as a speaker-coloured
\* paragraph of its own.
C31_EverySpeakerRunIsAParagraph ==
  (entry = "render" /\ fnOut # NoResponse) =>
    LET coloured == SelectSeq(fnOut.paragraphs, LAMBDA p : p.class # "")
    IN /\ Len(coloured) = Len(Labels(fnOut.transcript))
       /\ \A i \in 1..Len(coloured) : Len(Labels(coloured[i].line)) = 1

\* C32 (as stated): the progress a job reports never decreases over the
\* life of the job, retry attempts included: every report is greater than
\* the report before it.
C32_ProgressNeverDecreases ==
  [][\A j \in Jobs :
       jobs'[j].progress # jobs[j].progress => jobs'[j].progress > jobs[j].progress]_vars

\* C32 (amended): within one attempt every report is greater than the one
\* before it; an attempt starts by reporting 5 again, whatever the attempt
\* before it had reached; 100 is reported only after the attempt persisted
\* the results.
C32_ProgressIncreasesWithinAttempt ==
  [][\A j \in Jobs :
       jobs'[j].progress # jobs[j].progress =>
         /\ jobs'[j].progress \in {5, 20, 30, 40, 70, 90, 100}
         /\ IF jobs'[j].attemptsStarted = jobs[j].attemptsStarted
            THEN jobs'[j].progress > jobs[j].progress
            ELSE /\ jobs'[j].attemptsStarted = jobs[j].attemptsStarted + 1
                 /\ jobs'[j].progress = 5
         /\ jobs'[j].progress = 100 => "persist" \in StepsOk(jobs'[j].log)]_vars

\* A second attempt has reported 5 after the first one had reached the
\* optimize stage (its temporary file is still there) and reported 20.
C32_Witness ==
  \E j \in Jobs :
    /\ jobs[j].attemptsStarted = 2 /\ jobs[j].attemptsMade = 1
    /\ jobs[j].state = "active" /\ jobs[j].progress = 5 /\ jobs[j].log = <<>>
    /\ localFiles # {}

\* The callers whose acquireLock returned an id that is still the lock's
\* value: neither released nor expired.
C33_Holders ==
  {c \in Callers : /\ acquirers[c].pc = "returned" /\ acquirers[c].result = c
                   /\ redis["lock:L"] = Stored("raw", c, TRUE)}

\* C33: mutual exclusion of a lock name: an acquireLock call returns an id
\* only when no caller holds the lock, and the id it returns is then the
\* one stored; the stored id is always the id acquireLock gave one caller
\* (who still holds it, or whose releaseLock failed).
C33_MutualExclusion ==
  /\ [](/\ Cardinality(C33_Holders) <= 1
        /\ redis["lock:L"].kind # "absent" =>
             LET c == redis["lock:L"].n
             IN /\ acquirers[c].result = c
                /\ acquirers[c].pc \in {"returned", "released"})
  /\ [][\A d \in Callers :
          (acquirers[d].pc # "returned" /\ acquirers'[d].pc = "returned"
           /\ acquirers'[d].result # 0)
            => /\ C33_Holders = {}
               /\ redis'["lock:L"] = Stored("raw", d, TRUE)]_vars

\* One caller holds the lock; the other gave up with null while it did.
C33_Witness ==
  \E c, d \in Callers :
    /\ c # d /\ C33_Holders = {c}
    /\ acquirers[d].pc = "returned" /\ acquirers[d].result = 0
    /\ acquirers[d].startTime >= acquirers[c].startTime

\* C34: stopRecording deletes the temp chunks only after it saved the
\* combined audio and persisted the whole result set, and all of them at
\* once; a stop that failed left every uploaded chunk stored as it was, and
\* no other step changes a stored chunk.
C34_ChunksKeptUntilPersisted ==
  [][/\ tempChunks' # tempChunks =>
          \/ /\ nStops' = nStops /\ Len(tempChunks') = Len(tempChunks) + 1
             /\ SubSeq(tempChunks', 1, Len(tempChunks)) = tempChunks
          \/ /\ nStops' = nStops + 1 /\ tempChunks' = <<>>
             /\ {"saveAudio", "persist"} \subseteq StepsOk(httpLog')
             /\ Len(audio') = Len(audio) + 1
             /\ Len(results') = Len(results) + 1
             /\ results'[Len(results')].files = ResultFiles
     /\ (nStops' = nStops + 1 /\ response'.kind = "error") =>
          tempChunks' = tempChunks]_vars

\* A stop failed in the summarization and the chunks are still there.
C34_Witness ==
  /\ nStops > 0 /\ response.kind = "error"
  /\ "summarize" \in StepsFailed(httpLog)
  /\ tempChunks # <<>>

\* C35: every sequence number acknowledged by uploadChunk contributes
\* exactly one payload to the combined audio stopRecording saves, also when
\* a number was uploaded more than once.
C35_OnePayloadPerSequenceNumber ==
  [][(nStops' = nStops + 1 /\ Len(audio') = Len(audio) + 1) =>
       LET numbers == {tempChunks[i].no : i \in 1..Len(tempChunks)}
       IN /\ Len(audio'[Len(audio')].data) = Cardinality(numbers)
          /\ \A n \in numbers :
               \E i \in 1..Len(tempChunks) :
                 /\ tempChunks[i].no = n
                 /\ \E k \in 1..Len(audio'[Len(audio')].data) :
                      <<audio'[Len(audio')].data[k]>> = tempChunks[i].data]_vars

\* C36: result sets are never partial: once a persist stage has ended, by
\* success or by failure, every timestamp suffix of the results folder
\* names a complete set of the four artifacts.
C36_ResultSetsAreComplete ==
  \A i \in 1..Len(results) : results[i].files = ResultFiles

\* C37: getResults answers with the transcript and the summary of the most
\* recently persisted result set, both of that one set, whatever the order
\* in which the storage lists the files.
C37_LatestMatchedSetIsReturned ==
  [][(got' # got /\ got'.kind = "ok") =>
       LET Latest(file) ==
             {i \in 1..Len(results) :
                /\ file \in results[i].files
                /\ \A k \in (i + 1)..Len(results) : file \notin results[k].files}
       IN /\ \A i \in Latest("transcript.txt") :
               got'.transcript = results[i].transcript
          /\ \A i \in Latest("summary.txt") :
               got'.summary = results[i].summary]_vars

\* C38: the cache is never ahead of the blob store: whenever the cache holds
\* the entry of the recording, the results folder holds a complete result
\* set with the cached transcript and summary; the entry does not survive
\* deleteRecording.
C38_CacheNeverAheadOfStore ==
  cache.present =>
    \E i \in 1..Len(results) :
      /\ results[i].files = ResultFiles
      /\ results[i].transcript = cache.transcript
      /\ results[i].summary = cache.summary

\* C39: two job attempts in flight at the same time never share a local
\* temporary file: the paths the optimize stage creates belong to one
\* attempt, also when two attempts optimize at the same clock millisecond.
C39_TempFilesAreNotShared ==
  \A c, d \in Callers :
    (/\ c # d
     /\ stagers[c].tmp # NoStaging.tmp /\ stagers[d].tmp # NoStaging.tmp
     /\ {stagers[c].pc, stagers[d].pc} \subseteq {"idle", "staged"})
      => stagers[c].tmp # stagers[d].tmp

\* C40: an attempt writes nothing to the results folder, the status
\* metadata or the cache entry before its persist stage: an attempt that
\* fails in fetch, optimize, upload or transcribe never reached persist and
\* leaves the three as they were.
C40_EarlyStages == {"fetch", "optimize", "upload", "transcribe"}

C40_NothingWrittenBeforePersist ==
  [][\A j \in Jobs :
       /\ (jobs[j].state = "active" /\ jobs'[j] # jobs[j]
           /\ "persist" \notin Steps(jobs'[j].log))
            => (results' = results /\ metadata' = metadata /\ cache' = cache)
       /\ (jobs'[j].stage = "Failed" /\ jobs'[j].failedAt \in C40_EarlyStages)
            => "persist" \notin Steps(jobs'[j].log)]_vars

\* An attempt failed in transcribe, waits for its retry, and nothing was
\* written.
C40_Witness ==
  \E j \in Jobs :
    /\ jobs[j].stage = "Failed" /\ jobs[j].failedAt = "transcribe"
    /\ jobs[j].state = "delayed"
    /\ results = <<>> /\ metadata = NoMetadata /\ ~cache.present

====
